---- MODULE Spec2Model ----
(***************************************************************************)
(* Model of main.py: a Telegram bot relaying each chat's message history   *)
(* to the OpenRouter completion endpoint.                                  *)
(*                                                                         *)
(* Python values: a str is a TLA+ string and None, where a str is         *)
(* expected, the string None below; a message dict is a record             *)
(* [role, content] and None, where a dict is expected, the record NoneDict;*)
(* a list is a sequence.  A list is a mutable object: heap maps references *)
(* to list contents, and both chat_histories and a handler's local         *)
(* `history` hold references, so an in-place append through one is seen    *)
(* through the other.                                                      *)
(***************************************************************************)
EXTENDS Integers, Sequences, FiniteSets, TLC

\* ---------------------------------------------------------------- bounds
\* Number of chats (update.effective_chat.id ranges over 1..NumChats).
NumChats == 2
\* Updates the platform delivers in one run.
MaxUpdates == 3
\* Updates waiting in the application's update queue at one time.
MaxQueue == 2
\* Updates delivered in the runs of one chat handled message after message.
SeqUpdates == 25
\* Updates delivered in the long runs with failing completions.
LongUpdates == 13
\* Handlers in flight at once in the concurrently dispatched runs.
MaxTasks == 2
\* Updates delivered in the concurrently dispatched runs.
ConcUpdates == 3

\* ------------------------------------------------------ program constants
\* len(history) > 20 (main.py:115)
MaxHistory == 20
\* history[-19:] (main.py:117)
KeepLast == 19
\* ApplicationBuilder() without concurrent_updates(...): the application
\* processes one update at a time (main.py:140).
max_concurrent_updates == 1

None == "<None>"
NoneDict == [none |-> TRUE]
Chats == 1..NumChats
Tasks == 1..MaxTasks
Texts == {"a", "b"}

WELCOME_TEXT == "welcome"
NO_PROMPT_TEXT == "critical: system prompt not loaded"
NO_KEY_TEXT == "error: OpenRouter API key not configured"
FAILURE_TEXT == "sorry, error while calling the model"

\* ------------------------------------------------------------ pure parts
Min(a, b) == IF a < b THEN a ELSE b

\* {"role": role, "content": content}
Turn(role, content) == [role |-> role, content |-> content]

\* The content of system_prompt.json when it holds a system message.
PromptTurn == Turn("system", "prompt")
\* json.load of a file holding {} (valid JSON, falsy value).
EmptyDict == [empty |-> TRUE]

\* What system_prompt.json may be at start.
PromptFiles == {"missing", "invalid_json", "unreadable", "empty_object", "system_message"}

\* load_system_prompt(): the value returned, or a raise for an error other
\* than FileNotFoundError / JSONDecodeError.
load_system_prompt(file) ==
    CASE file = "missing" -> [kind |-> "return", value |-> NoneDict]
      [] file = "invalid_json" -> [kind |-> "return", value |-> NoneDict]
      [] file = "empty_object" -> [kind |-> "return", value |-> EmptyDict]
      [] file = "system_message" -> [kind |-> "return", value |-> PromptTurn]
      [] OTHER -> [kind |-> "raise", value |-> NoneDict]

\* A test that lets None pass (only the empty string is false).
Truthy_unset_passes(v) == v # ""

\* A test that lets the empty string pass (`is not None`).
Truthy_empty_passes(v) == v # None

\* Python truth of a str | None value.
Truthy(v) == v # None /\ v # ""
\* Python truth of a dict | None value.
TruthyDict(v) == v # NoneDict /\ v # EmptyDict

\* os.getenv values: unset, set to the empty string, set.
EnvValues == {None, "", "secret"}

\* main() up to run_polling without the token check.
main_no_token_check(prompt, environ) ==
    IF ~TruthyDict(prompt) THEN "exited" ELSE "serving"

\* main(): "serving" when run_polling is reached, "exited" on an early return.
main(prompt, environ) ==
    IF ~TruthyDict(prompt) THEN "exited"
    ELSE IF ~Truthy(environ.TELEGRAM_BOT_TOKEN) THEN "exited"
    ELSE "serving"

\* The last k elements of s (s[-k:] for k > 0).
LastK(s, k) == SubSeq(s, Len(s) - Min(k, Len(s)) + 1, Len(s))

\* Truncation that keeps the last 19 elements only.
Truncate_drop_first(history) ==
    IF Len(history) > MaxHistory THEN LastK(history, KeepLast) ELSE history

\* Truncation with a window of 4 turns.
Truncate_short_window(history) ==
    IF Len(history) > 4 THEN <<history[1]>> \o LastK(history, 3) ELSE history

\* Truncation that keeps one element too many.
Truncate_keep_20(history) ==
    IF Len(history) > MaxHistory
    THEN <<history[1]>> \o LastK(history, KeepLast + 1)
    ELSE history

\* if len(history) > 20: history = [history[0]] + history[-19:]
Truncate(history) ==
    IF Len(history) > MaxHistory
    THEN <<history[1]>> \o LastK(history, KeepLast)
    ELSE history

\* The mock endpoint of the round-trip test: "echo:" + last user content.
Echo(text) == "echo:" \o text

\* What the completion call may meet: no connection, a non-2xx status, a
\* body that is not JSON, a JSON body without choices[0].message.content,
\* a null content, an empty content, the echoing reply.
ResponseKinds == {"network_error", "http_error", "invalid_json", "no_choices", "null_content", "empty_content", "echo"}
\* The kinds that are failures of the completion call.
FailureKinds == {"network_error", "http_error", "invalid_json", "no_choices"}

\* The content of the last user message of a request.
RECURSIVE LastUserContent(_)
LastUserContent(messages) ==
    IF messages = <<>> THEN ""
    ELSE IF messages[Len(messages)].role = "user" THEN messages[Len(messages)].content
    ELSE LastUserContent(SubSeq(messages, 1, Len(messages) - 1))

\* The endpoint's response of one kind to a request.
Response(kind, messages) ==
    [kind |-> kind,
     content |-> CASE kind = "echo" -> Echo(LastUserContent(messages))
                   [] kind = "empty_content" -> ""
                   [] OTHER -> None]

\* get_llm_response after requests.post: the value returned, or the
\* exception that leaves the function.  requests.exceptions.RequestException
\* covers ConnectionError, HTTPError and the JSONDecodeError of
\* response.json(); the KeyError of data['choices'] is not covered.
get_llm_response(response) ==
    CASE response.kind = "network_error" -> [kind |-> "return", value |-> None]
      [] response.kind = "http_error" -> [kind |-> "return", value |-> None]
      [] response.kind = "invalid_json" -> [kind |-> "return", value |-> None]
      [] response.kind = "no_choices" -> [kind |-> "raise", value |-> "KeyError"]
      [] response.kind = "null_content" -> [kind |-> "return", value |-> None]
      [] OTHER -> [kind |-> "return", value |-> response.content]

\* A request body that carries the last message only.
RequestMessages_last_only(history) == <<history[Len(history)]>>

\* "messages": history in the request body (main.py:50).
RequestMessages(history) == history

\* A lookup that finds the first chat's entry whatever the key.
get_any_key(store, chat_id) == store[1]

\* chat_histories.get(chat_id) (main.py:79).
get(store, chat_id) == store[chat_id]

\* ------------------------------------------------------------------ state
VARIABLES
    phase,           \* "start", "imported", "serving", "exited", "crashed"
    prompt_file,     \* what system_prompt.json is
    environ,         \* os.environ after load_dotenv()
    SYSTEM_PROMPT,   \* the module global
    chat_histories,  \* the module global: chat id -> list reference, NoRef when the key is absent
    heap,            \* list reference -> the list's elements
    update_queue,    \* updates fetched from the platform, not yet processed
    received,        \* number of updates fetched so far
    tasks,           \* the handle_message coroutines in flight
    last_done,       \* observation: the handler call that ended last
    exchanges,       \* observation: per chat, handle_message calls ended with / without a model reply
    recent           \* observation: per chat, the last 19 turns of the exchanges that got a model reply

vars == <<phase, prompt_file, environ, SYSTEM_PROMPT, chat_histories, heap,
          update_queue, received, tasks, last_done, exchanges, recent>>

NoRef == 0
\* One list per store entry, one per handler, one being built by a truncation.
Refs == 1..(NumChats + MaxTasks + 1)

IdleTask ==
    [pc |-> "idle", chat_id |-> 0, user_message |-> "", history |-> NoRef,
     posted |-> <<>>, calls |-> 0, response |-> "none",
     result |-> [kind |-> "none", value |-> None]]

NothingDone ==
    [kind |-> "none", chat_id |-> 0, user_message |-> "", replies |-> <<>>,
     calls |-> 0, response |-> "none", result |-> [kind |-> "none", value |-> None],
     history_after |-> <<>>]

\* References held by the store or by a handler's local variable.
Live(store, ts) ==
    ({store[c] : c \in Chats} \cup {ts[t].history : t \in Tasks}) \ {NoRef}

\* A "new" list that is one shared object (the first reference always).
NewRef_shared(store, ts) == 1

\* The reference of a newly created list.
NewRef(store, ts) ==
    CHOOSE r \in Refs : r \notin Live(store, ts)
                        /\ \A q \in Refs : q \notin Live(store, ts) => r <= q

\* Lists that nothing refers to any more are gone.
Collect(h, store, ts) ==
    [r \in Refs |-> IF r \in Live(store, ts) THEN h[r] ELSE <<>>]

\* The list chat_histories holds for a chat, <<>> when the key is absent.
StoredHistory(store, h, c) == IF store[c] = NoRef THEN <<>> ELSE h[store[c]]

Busy == {t \in Tasks : tasks[t].pc # "idle"}
FreeSlot == CHOOSE t \in Tasks : tasks[t].pc = "idle" /\ \A q \in Tasks : tasks[q].pc = "idle" => t <= q

Init ==
    /\ phase = "start"
    /\ prompt_file \in PromptFiles
    /\ environ \in [TELEGRAM_BOT_TOKEN : EnvValues, OPENROUTER_API_KEY : EnvValues]
    /\ SYSTEM_PROMPT = NoneDict
    /\ chat_histories = [c \in Chats |-> NoRef]
    /\ heap = [r \in Refs |-> <<>>]
    /\ update_queue = <<>>
    /\ received = 0
    /\ tasks = [t \in Tasks |-> IdleTask]
    /\ last_done = NothingDone
    /\ exchanges = [c \in Chats |-> [ok |-> 0, failed |-> 0]]
    /\ recent = [c \in Chats |-> <<>>]

\* ---------------------------------------------------------------- actions
\* Module level code: SYSTEM_PROMPT = load_system_prompt() (main.py:31).
import_module ==
    /\ phase = "start"
    /\ LET r == load_system_prompt(prompt_file)
       IN /\ phase' = IF r.kind = "raise" THEN "crashed" ELSE "imported"
          /\ SYSTEM_PROMPT' = r.value
    /\ UNCHANGED <<prompt_file, environ, chat_histories, heap, update_queue,
                   received, tasks, last_done, exchanges, recent>>

\* main() (main.py:129-147).
run_main ==
    /\ phase = "imported"
    /\ phase' = main(SYSTEM_PROMPT, environ)
    /\ UNCHANGED <<prompt_file, environ, SYSTEM_PROMPT, chat_histories, heap,
                   update_queue, received, tasks, last_done, exchanges, recent>>

\* A text message (filters.TEXT & ~filters.COMMAND) or the /start command.
UpdateKinds == {"text", "start"}

\* run_polling fetches an update.
receive_update(chats, kinds, texts, max_updates, max_queue) ==
    /\ phase = "serving"
    /\ received < max_updates
    /\ Len(update_queue) < max_queue
    /\ \E c \in chats, kind \in kinds :
         \E text \in (IF kind = "text" THEN texts ELSE {"/start"}) :
           update_queue' = Append(update_queue, [chat_id |-> c, kind |-> kind, text |-> text])
    /\ received' = received + 1
    /\ UNCHANGED <<phase, prompt_file, environ, SYSTEM_PROMPT, chat_histories,
                   heap, tasks, last_done, exchanges, recent>>

\* The application takes the next update when fewer than `limit` handlers
\* are in flight.
CanDispatch(limit) ==
    /\ phase = "serving"
    /\ update_queue # <<>>
    /\ Cardinality(Busy) < limit

\* A start() that also forgets the chat's history.
start_forgets_history(limit) ==
    /\ CanDispatch(limit)
    /\ Head(update_queue).kind = "start"
    /\ update_queue' = Tail(update_queue)
    /\ chat_histories' = [chat_histories EXCEPT ![Head(update_queue).chat_id] = NoRef]
    /\ heap' = Collect(heap, chat_histories', tasks)
    /\ last_done' = [NothingDone EXCEPT !.kind = "start",
                                        !.chat_id = Head(update_queue).chat_id,
                                        !.user_message = Head(update_queue).text,
                                        !.replies = <<WELCOME_TEXT>>,
                                        !.history_after =
                                            StoredHistory(chat_histories, heap, Head(update_queue).chat_id)]
    /\ UNCHANGED <<phase, prompt_file, environ, SYSTEM_PROMPT,
                   received, tasks, exchanges, recent>>

\* start() (main.py:62-71).
start(limit) ==
    /\ CanDispatch(limit)
    /\ Head(update_queue).kind = "start"
    /\ update_queue' = Tail(update_queue)
    /\ last_done' = [NothingDone EXCEPT !.kind = "start",
                                        !.chat_id = Head(update_queue).chat_id,
                                        !.user_message = Head(update_queue).text,
                                        !.replies = <<WELCOME_TEXT>>,
                                        !.history_after =
                                            StoredHistory(chat_histories, heap, Head(update_queue).chat_id)]
    /\ UNCHANGED <<phase, prompt_file, environ, SYSTEM_PROMPT, chat_histories,
                   heap, received, tasks, exchanges, recent>>

\* handle_message up to its first await (main.py:75-109).
handle_message_begin(limit) ==
    /\ CanDispatch(limit)
    /\ Head(update_queue).kind = "text"
    /\ update_queue' = Tail(update_queue)
    /\ LET chat_id == Head(update_queue).chat_id
           user_message == Head(update_queue).text
           stored == get(chat_histories, chat_id)
       IN IF stored = NoRef /\ ~TruthyDict(SYSTEM_PROMPT)
          THEN \* main.py:85-89
               /\ last_done' = [NothingDone EXCEPT !.kind = "text", !.chat_id = chat_id,
                                                   !.user_message = user_message,
                                                   !.replies = <<NO_PROMPT_TEXT>>]
               /\ exchanges' = [exchanges EXCEPT ![chat_id].failed = @ + 1]
               /\ UNCHANGED <<heap, tasks>>
          ELSE LET history == IF stored = NoRef THEN NewRef(chat_histories, tasks) ELSE stored
                   seeded == IF stored = NoRef THEN <<SYSTEM_PROMPT>> ELSE heap[stored]
                   appended == [heap EXCEPT ![history] = Append(seeded, Turn("user", user_message))]
               IN IF ~Truthy(environ.OPENROUTER_API_KEY)
                  THEN \* main.py:96-102
                       /\ heap' = Collect(appended, chat_histories, tasks)
                       /\ last_done' = [NothingDone EXCEPT
                                            !.kind = "text", !.chat_id = chat_id,
                                            !.user_message = user_message,
                                            !.replies = <<NO_KEY_TEXT>>,
                                            !.history_after = StoredHistory(chat_histories, heap', chat_id)]
                       /\ exchanges' = [exchanges EXCEPT ![chat_id].failed = @ + 1]
                       /\ UNCHANGED tasks
                  ELSE \* main.py:107: the call is handed to the executor
                       /\ heap' = appended
                       /\ tasks' = [tasks EXCEPT ![FreeSlot] =
                                       [IdleTask EXCEPT !.pc = "submitted", !.chat_id = chat_id,
                                                        !.user_message = user_message,
                                                        !.history = history]]
                       /\ UNCHANGED <<last_done, exchanges>>
    /\ UNCHANGED <<phase, prompt_file, environ, SYSTEM_PROMPT, chat_histories,
                   received, recent>>

\* The executor thread runs get_llm_response up to requests.post
\* (main.py:42-52): the request body is built from the list as it is now.
executor_post(t) ==
    /\ tasks[t].pc = "submitted"
    /\ tasks' = [tasks EXCEPT ![t].pc = "posted",
                              ![t].posted = RequestMessages(heap[tasks[t].history]),
                              ![t].calls = @ + 1]
    /\ UNCHANGED <<phase, prompt_file, environ, SYSTEM_PROMPT, chat_histories, heap,
                   update_queue, received, last_done, exchanges, recent>>

\* requests.post ends and get_llm_response returns or raises (main.py:53-58).
endpoint_respond(t, kinds) ==
    /\ tasks[t].pc = "posted"
    /\ \E kind \in kinds :
         tasks' = [tasks EXCEPT ![t].pc = "returned",
                                ![t].response = kind,
                                ![t].result = get_llm_response(Response(kind, tasks[t].posted))]
    /\ UNCHANGED <<phase, prompt_file, environ, SYSTEM_PROMPT, chat_histories, heap,
                   update_queue, received, last_done, exchanges, recent>>

\* handle_message after the await (main.py:111-125).
handle_message_resume(t) ==
    /\ tasks[t].pc = "returned"
    /\ LET chat_id == tasks[t].chat_id
           history == tasks[t].history
           result == tasks[t].result
           done == [NothingDone EXCEPT !.kind = "text", !.chat_id = chat_id,
                                       !.user_message = tasks[t].user_message,
                                       !.calls = tasks[t].calls,
                                       !.response = tasks[t].response,
                                       !.result = result]
           ended == [tasks EXCEPT ![t] = IdleTask]
       IN /\ tasks' = ended
          /\ IF result.kind = "raise"
             THEN \* the exception leaves handle_message; the application logs it
                  /\ chat_histories' = chat_histories
                  /\ heap' = Collect(heap, chat_histories, ended)
                  /\ last_done' = [done EXCEPT !.history_after =
                                       StoredHistory(chat_histories', heap', chat_id)]
                  /\ exchanges' = [exchanges EXCEPT ![chat_id].failed = @ + 1]
                  /\ recent' = recent
             ELSE IF Truthy(result.value)
             THEN \* main.py:113-120
                  LET llm_response == result.value
                      appended == Append(heap[history], Turn("assistant", llm_response))
                      fresh == NewRef(chat_histories, tasks)
                      kept == IF Len(appended) > MaxHistory THEN fresh ELSE history
                      written == [[heap EXCEPT ![history] = appended] EXCEPT ![kept] = Truncate(appended)]
                  IN /\ chat_histories' = [chat_histories EXCEPT ![chat_id] = kept]
                     /\ heap' = Collect(written, chat_histories', ended)
                     /\ last_done' = [done EXCEPT !.replies = <<llm_response>>,
                                                  !.history_after =
                                                      StoredHistory(chat_histories', heap', chat_id)]
                     /\ exchanges' = [exchanges EXCEPT ![chat_id].ok = @ + 1]
                     /\ recent' = [recent EXCEPT ![chat_id] =
                                      LastK(@ \o <<Turn("user", tasks[t].user_message),
                                                   Turn("assistant", llm_response)>>, KeepLast)]
             ELSE \* main.py:122-125
                  /\ chat_histories' = chat_histories
                  /\ heap' = Collect(heap, chat_histories, ended)
                  /\ last_done' = [done EXCEPT !.replies = <<FAILURE_TEXT>>,
                                               !.history_after =
                                                   StoredHistory(chat_histories', heap', chat_id)]
                  /\ exchanges' = [exchanges EXCEPT ![chat_id].failed = @ + 1]
                  /\ recent' = recent
    /\ UNCHANGED <<phase, prompt_file, environ, SYSTEM_PROMPT, update_queue, received>>

\* os.getenv("OPENROUTER_API_KEY") is read anew for every message
\* (main.py:95): the variable is set or cleared in the process environment
\* while the bot serves.
environ_change ==
    /\ phase = "serving"
    /\ \E v \in EnvValues \ {environ.OPENROUTER_API_KEY} :
         environ' = [environ EXCEPT !.OPENROUTER_API_KEY = v]
    /\ UNCHANGED <<phase, prompt_file, SYSTEM_PROMPT, chat_histories, heap,
                   update_queue, received, tasks, last_done, exchanges, recent>>

\* --------------------------------------------------------- specifications
\* The program: updates of every chat, every response kind, one update
\* processed at a time.
Next ==
    \/ import_module
    \/ run_main
    \/ receive_update(Chats, UpdateKinds, Texts, MaxUpdates, MaxQueue)
    \/ start(max_concurrent_updates)
    \/ handle_message_begin(max_concurrent_updates)
    \/ \E t \in Tasks : executor_post(t)
    \/ \E t \in Tasks : endpoint_respond(t, ResponseKinds)
    \/ \E t \in Tasks : handle_message_resume(t)

Spec == Init /\ [][Next]_vars

\* The program with an API key that comes and goes while it serves; every
\* completion call meets the echoing endpoint.
NextEnv ==
    \/ import_module
    \/ run_main
    \/ environ_change
    \/ receive_update(Chats, {"text"}, Texts, MaxUpdates, 1)
    \/ handle_message_begin(max_concurrent_updates)
    \/ \E t \in Tasks : executor_post(t)
    \/ \E t \in Tasks : endpoint_respond(t, {"echo"})
    \/ \E t \in Tasks : handle_message_resume(t)

SpecEnv == Init /\ [][NextEnv]_vars

\* One chat whose messages are handled one after another, every completion
\* call meeting the echoing endpoint.
NextSeq ==
    \/ import_module
    \/ run_main
    \/ receive_update({1}, {"text"}, Texts, SeqUpdates, 1)
    \/ handle_message_begin(max_concurrent_updates)
    \/ \E t \in Tasks : executor_post(t)
    \/ \E t \in Tasks : endpoint_respond(t, {"echo"})
    \/ \E t \in Tasks : handle_message_resume(t)

SpecSeq == Init /\ [][NextSeq]_vars

\* One chat over a long run, every response kind.
NextLong ==
    \/ import_module
    \/ run_main
    \/ receive_update({1}, {"text"}, {"a"}, LongUpdates, 1)
    \/ handle_message_begin(max_concurrent_updates)
    \/ \E t \in Tasks : executor_post(t)
    \/ \E t \in Tasks : endpoint_respond(t, ResponseKinds)
    \/ \E t \in Tasks : handle_message_resume(t)

SpecLong == Init /\ [][NextLong]_vars

\* The scheduling of spec.md section 5: every update of two chats is
\* dispatched as a task of its own, up to MaxTasks handlers in flight; a
\* call is answered, meets a non-2xx status or gets a body without choices.
\* The runs of Spec with these updates and responses are runs of SpecConc.
NextConc ==
    \/ import_module
    \/ run_main
    \/ receive_update({1, 2}, {"text"}, Texts, ConcUpdates, 1)
    \/ handle_message_begin(MaxTasks)
    \/ \E t \in Tasks : executor_post(t)
    \/ \E t \in Tasks : endpoint_respond(t, {"echo", "http_error", "no_choices"})
    \/ \E t \in Tasks : handle_message_resume(t)

SpecConc == Init /\ [][NextConc]_vars

\* ----------------------------------------------------------------- claims
Stored(c) == StoredHistory(chat_histories, heap, c)
InFlight(c) == {t \in Tasks : tasks[t].pc # "idle" /\ tasks[t].chat_id = c}

\* C1: whenever the completion call for a message fails, also for the first
\* message of a chat, the history the store holds for the chat after the
\* attempt ends with that message's user turn (no assistant turn after it)
\* and the reply sent is the generic failure text.
C1_FailureKeepsUserTurn ==
    (last_done.kind = "text" /\ last_done.response \in FailureKinds)
    => /\ last_done.history_after # <<>>
       /\ last_done.history_after[Len(last_done.history_after)]
              = Turn("user", last_done.user_message)
       /\ last_done.replies = <<FAILURE_TEXT>>

\* C2: every history the store holds has at most 20 elements in every
\* reachable state, after a user turn is appended as well as after an
\* assistant turn.
C2_StoreBounded == \A c \in Chats : Len(Stored(c)) <= 20

\* C3: after n exchanges of one chat, all successful and handled one after
\* another, the stored history is the system turn followed by the last
\* min(2n, 19) elements of u1, a1, ..., un, an in order; n = 1 gives
\* [system, user, assistant] and n = 25 gives length 20.
C3_SequentialWindow ==
    \A c \in Chats :
        (last_done.kind = "text" /\ last_done.chat_id = c
         /\ exchanges[c].failed = 0 /\ exchanges[c].ok >= 1)
        => /\ last_done.history_after = <<PromptTurn>> \o recent[c]
           /\ Len(recent[c]) = Min(2 * exchanges[c].ok, 19)
           /\ exchanges[c].ok = 1 =>
                 last_done.history_after =
                     <<PromptTurn, Turn("user", last_done.user_message),
                       Turn("assistant", last_done.result.value)>>
           /\ exchanges[c].ok = 25 => Len(last_done.history_after) = 20

\* The 25th successful exchange of a chat has ended and its history is full.
C3_Witness ==
    /\ last_done.kind = "text" /\ last_done.chat_id = 1
    /\ exchanges[1] = [ok |-> 25, failed |-> 0]
    /\ Len(last_done.history_after) = 20
    /\ last_done.history_after[2].role = "assistant"

\* C4: the completion relay makes exactly one call per invocation and, for
\* a network failure, a non-2xx status and a malformed body (a JSON body
\* without choices[0].message.content included), returns the failure value
\* None to its caller: it never ends by raising.
C4_RelayReturnsFailure ==
    \A t \in Tasks :
        tasks[t].pc = "returned"
        => /\ tasks[t].calls = 1
           /\ tasks[t].response \in FailureKinds
                  => tasks[t].result = [kind |-> "return", value |-> None]

\* C5: once serving, the handling of every text message whose completion
\* call returns or fails ends with exactly one reply sent to the chat.
C5_OneReplyPerMessage ==
    last_done.kind = "text" => Len(last_done.replies) = 1

\* system_prompt.json holds a system message.
PromptValid == prompt_file = "system_message"
TokenPresent == environ.TELEGRAM_BOT_TOKEN \notin {None, ""}
KeyPresent == environ.OPENROUTER_API_KEY \notin {None, ""}
StartupOver == phase \notin {"start", "imported"}
NothingHandled ==
    received = 0 /\ update_queue = <<>> /\ last_done = NothingDone
    /\ \A t \in Tasks : tasks[t].pc = "idle"

C7_RequestIsHistoryPlusUser ==
    \A c \in Chats :
        exchanges[c].failed = 0
        => /\ \A t \in InFlight(c) :
                 tasks[t].pc \in {"posted", "returned"}
                 => /\ tasks[t].posted =
                           (IF exchanges[c].ok = 0 THEN <<PromptTurn>>
                            ELSE last_done.history_after)
                           \o <<Turn("user", tasks[t].user_message)>>
                    /\ (exchanges[c].ok = 1 /\ recent[c][1].content = "a"
                        /\ tasks[t].user_message = "b")
                           => tasks[t].posted =
                                  <<Turn("system", "prompt"), Turn("user", "a"),
                                    Turn("assistant", "echo:a"), Turn("user", "b")>>
           /\ (last_done.kind = "text" /\ last_done.chat_id = c /\ exchanges[c].ok >= 1)
                 => /\ last_done.replies = <<last_done.result.value>>
                    /\ last_done.response = "echo"
                           => last_done.replies = <<"echo:" \o last_done.user_message>>

\* "a" was answered "echo:a" and the request for "b" is outstanding.
C7_Witness ==
    /\ exchanges[1] = [ok |-> 1, failed |-> 0]
    /\ last_done.user_message = "a" /\ last_done.replies = <<"echo:a">>
    /\ \E t \in InFlight(1) : tasks[t].pc = "posted" /\ tasks[t].user_message = "b"
                              /\ Len(tasks[t].posted) = 4

\* A step that is part of the handling of a message of chat c.
StepOf(c) ==
    \/ update_queue # <<>> /\ Head(update_queue).chat_id = c
                           /\ update_queue' = Tail(update_queue)
    \/ \E t \in Tasks : tasks[t].chat_id = c /\ tasks'[t] # tasks[t]

\* C8: with first messages of two chats handled concurrently and answered,
\* under every interleaving each chat's stored history ends as [system, its
\* own user turn, its own assistant turn], and no step of one chat's
\* handler changes the other chat's store entry.
C8_ChatsIsolated ==
    /\ [](\A c \in Chats :
            (exchanges[c] = [ok |-> 1, failed |-> 0] /\ InFlight(c) = {})
            => /\ Stored(c) = <<PromptTurn>> \o recent[c]
               /\ Len(Stored(c)) = 3
               /\ Stored(c)[2].role = "user" /\ Stored(c)[3].role = "assistant"
               /\ Stored(c)[3].content = "echo:" \o Stored(c)[2].content)
    /\ [][\A c \in Chats :
            Stored(c)' # Stored(c) => StepOf(c)]_vars

\* The handlers of the first messages of two chats, with different texts,
\* are in flight together and both calls have returned a reply.
C8_Witness ==
    /\ \A c \in {1, 2} : exchanges[c] = [ok |-> 0, failed |-> 0] /\ Stored(c) = <<>>
    /\ \E t, u \in Tasks :
          /\ tasks[t].chat_id = 1 /\ tasks[u].chat_id = 2
          /\ tasks[t].pc = "returned" /\ tasks[u].pc = "returned"
          /\ tasks[t].response = "echo" /\ tasks[u].response = "echo"
          /\ tasks[t].user_message # tasks[u].user_message

\* C9: in every reachable state every non-empty history in the store has
\* the configured system prompt as its first element.
C9_SystemPromptFirst ==
    \A c \in Chats :
        Stored(c) # <<>> => (Stored(c)[1] = PromptTurn /\ Stored(c)[1] = SYSTEM_PROMPT)

\* A history that was cut to 20 elements after failed and successful
\* exchanges.
C9_Witness ==
    /\ exchanges[1].failed >= 1 /\ exchanges[1].ok >= 1
    /\ 1 + 2 * exchanges[1].ok + exchanges[1].failed > 20
    /\ Len(Stored(1)) = 20
    /\ Stored(1)[1] = PromptTurn

\* C10: a message of chat B that arrives while the completion call of a
\* message of another chat A is outstanding is handled without waiting for
\* A's call to end.
C10_NoStall ==
    \A t \in Tasks :
        (tasks[t].pc = "posted" /\ update_queue # <<>>
         /\ Head(update_queue).chat_id # tasks[t].chat_id)
        => CanDispatch(max_concurrent_updates)

\* The number of assistant turns of a list.
RECURSIVE AssistantTurns(_)
AssistantTurns(h) ==
    IF h = <<>> THEN 0
    ELSE (IF h[Len(h)].role = "assistant" THEN 1 ELSE 0)
         + AssistantTurns(SubSeq(h, 1, Len(h) - 1))

\* The step in which the handling of the text message at the head of the
\* queue begins.
BeginsText ==
    IF update_queue = <<>> THEN FALSE
    ELSE Head(update_queue).kind = "text" /\ update_queue' = Tail(update_queue)

\* C11: when the API key is absent at the time a message is handled, the
\* handler sends the key notice to the chat of the message, makes no
\* completion call and appends no assistant turn, and the process keeps
\* serving; a message handled with the key present is processed normally
\* (a call is made and, when it is answered, the answer is the reply and
\* the last turn of the stored history), also after a message that got the
\* notice.
C11_KeyNoticeAndRecovery ==
    /\ [][IF ~(BeginsText /\ ~KeyPresent) THEN TRUE ELSE
             /\ last_done' = [NothingDone EXCEPT
                                 !.kind = "text",
                                 !.chat_id = Head(update_queue).chat_id,
                                 !.user_message = Head(update_queue).text,
                                 !.replies = <<NO_KEY_TEXT>>,
                                 !.history_after =
                                     StoredHistory(chat_histories', heap',
                                                   Head(update_queue).chat_id)]
             /\ tasks' = tasks
             /\ chat_histories' = chat_histories
             /\ \A c \in Chats : AssistantTurns(Stored(c)') = AssistantTurns(Stored(c))
             /\ phase' = "serving"]_vars
    /\ [][IF ~(BeginsText /\ KeyPresent) THEN TRUE ELSE
             \E t \in Tasks :
                /\ tasks[t].pc = "idle" /\ tasks'[t].pc = "submitted"
                /\ tasks'[t].chat_id = Head(update_queue).chat_id
                /\ tasks'[t].user_message = Head(update_queue).text
                /\ last_done' = last_done]_vars
    /\ [](last_done.response = "echo"
          => /\ last_done.calls = 1
             /\ last_done.replies = <<"echo:" \o last_done.user_message>>
             /\ last_done.history_after[Len(last_done.history_after)]
                    = Turn("assistant", "echo:" \o last_done.user_message))

\* A chat got an answer, then the key notice, then an answer again: its
\* history holds the unanswered user turn between the two exchanges.
C11_Witness ==
    /\ last_done.kind = "text" /\ last_done.chat_id = 1 /\ last_done.response = "echo"
    /\ exchanges[1] = [ok |-> 2, failed |-> 1]
    /\ Len(Stored(1)) = 6
    /\ Stored(1)[4].role = "user" /\ Stored(1)[5].role = "user"
    /\ Stored(1)[6].role = "assistant"

\* The step in which the /start command at the head of the queue is handled.
HandlesStart ==
    IF update_queue = <<>> THEN FALSE
    ELSE Head(update_queue).kind = "start" /\ update_queue' = Tail(update_queue)

\* C12: handling the /start command leaves the whole history store
\* unchanged (no entry created, no history modified), makes no completion
\* call and sends exactly one greeting to the chat of the command.
C12_StartHasNoStateEffect ==
    /\ [][IF ~HandlesStart THEN TRUE ELSE
             /\ chat_histories' = chat_histories
             /\ \A c \in Chats :
                   StoredHistory(chat_histories', heap', c) = Stored(c)
             /\ heap' = heap
             /\ tasks' = tasks
             /\ last_done'.kind = "start"
             /\ last_done'.chat_id = Head(update_queue).chat_id
             /\ last_done'.replies = <<WELCOME_TEXT>>
             /\ last_done'.calls = 0]_vars
    /\ [](last_done.kind = "start"
          => (Len(last_done.replies) = 1 /\ last_done.calls = 0
              /\ last_done.response = "none"))

\* A chat with a stored history was greeted and its history is as it was.
C12_Witness ==
    /\ last_done.kind = "start"
    /\ last_done.replies = <<WELCOME_TEXT>>
    /\ Len(last_done.history_after) = 3
    /\ Stored(last_done.chat_id) = last_done.history_after

SharesStoredList(c) ==
    /\ chat_histories[c] # NoRef
    /\ \A t \in InFlight(c) : tasks[t].history = chat_histories[c]

\* The handler of chat c that resumes with an answer in this step.
Answered(c) ==
    {t \in InFlight(c) : tasks[t].pc = "returned" /\ tasks'[t].pc = "idle"
                         /\ tasks[t].result.kind = "return"
                         /\ tasks[t].result.value \notin {None, ""}}

\* The number of elements of h equal to x.
RECURSIVE Count(_, _)
Count(h, x) ==
    IF h = <<>> THEN 0
    ELSE (IF h[Len(h)] = x THEN 1 ELSE 0) + Count(SubSeq(h, 1, Len(h) - 1), x)

\* C14: for a chat that has a history in the store, with every handler in
\* flight holding that list, and as long as no append takes the list beyond
\* 20 turns, overlapping handlers lose nothing: the store keeps the same
\* list, every step only appends to it, a step that begins a message
\* appends that message's user turn once, a step that ends an answered
\* call appends that answer's assistant turn once, and no other step
\* changes it; after one exchange followed by two overlapping answered
\* messages the history holds every turn of the three exchanges once.
C14_SharedListLosesNothing ==
    /\ [][\A c \in Chats :
            IF ~(SharesStoredList(c) /\ Len(Stored(c)) < MaxHistory) THEN TRUE ELSE
               /\ chat_histories'[c] = chat_histories[c]
               /\ \A t \in Tasks :
                     (tasks'[t].pc # "idle" /\ tasks'[t].chat_id = c)
                     => tasks'[t].history = chat_histories'[c]
               /\ StoredHistory(chat_histories', heap', c) =
                     IF BeginsText /\ Head(update_queue).chat_id = c
                     THEN Append(Stored(c), Turn("user", Head(update_queue).text))
                     ELSE IF Answered(c) # {}
                     THEN Append(Stored(c),
                                 Turn("assistant",
                                      tasks[CHOOSE t \in Answered(c) : TRUE].result.value))
                     ELSE Stored(c)]_vars
    /\ [](\A c \in Chats :
            (exchanges[c] = [ok |-> 3, failed |-> 0] /\ InFlight(c) = {}
             /\ SharesStoredList(c) /\ Len(Stored(c)) = 7)
            => /\ Stored(c)[1] = PromptTurn
               /\ \A i \in 1..Len(recent[c]) :
                     Count(Stored(c), recent[c][i]) = Count(recent[c], recent[c][i])
               /\ AssistantTurns(Stored(c)) = 3)

\* After a first exchange two messages of chat 1 were in flight together on
\* the stored list, both were answered, and the history holds all seven
\* turns, the two user turns side by side.
C14_Witness ==
    /\ exchanges[1] = [ok |-> 3, failed |-> 0] /\ InFlight(1) = {}
    /\ Len(Stored(1)) = 7
    /\ Stored(1)[4].role = "user" /\ Stored(1)[5].role = "user"
    /\ Stored(1)[6].role = "assistant" /\ Stored(1)[7].role = "assistant"
    /\ Stored(1)[4].content # Stored(1)[5].content

\* The handlers that resume in this step after a call that returned the
\* empty string.
ResumesEmpty ==
    {t \in Tasks : tasks[t].pc = "returned" /\ tasks'[t].pc = "idle"
                   /\ tasks[t].response = "empty_content"}

\* C15: a completion call that succeeds with an empty reply text is handled
\* like a failed call: no assistant turn is appended, the store entry is
\* not written, and the user gets the generic failure notice, not a reply.
C15_EmptyReplyIsFailure ==
    /\ [][IF ResumesEmpty = {} THEN TRUE ELSE
             /\ chat_histories' = chat_histories
             /\ \A c \in Chats : StoredHistory(chat_histories', heap', c) = Stored(c)
             /\ exchanges' = [exchanges EXCEPT
                                 ![tasks[CHOOSE t \in ResumesEmpty : TRUE].chat_id].failed = @ + 1]
             /\ last_done'.replies = <<FAILURE_TEXT>>
             /\ last_done'.chat_id = tasks[CHOOSE t \in ResumesEmpty : TRUE].chat_id]_vars
    /\ [](last_done.response = "empty_content"
          => /\ last_done.result = [kind |-> "return", value |-> ""]
             /\ last_done.replies = <<FAILURE_TEXT>>
             /\ last_done.history_after # <<>>
                    => last_done.history_after[Len(last_done.history_after)]
                           = Turn("user", last_done.user_message))

\* A message of a chat with a stored history got an empty reply text: the
\* failure notice was sent and the history ends with the user turn.
C15_Witness ==
    /\ last_done.kind = "text" /\ last_done.response = "empty_content"
    /\ last_done.result.value = ""
    /\ last_done.replies = <<FAILURE_TEXT>>
    /\ Len(last_done.history_after) = 4
    /\ last_done.history_after[4] = Turn("user", last_done.user_message)
    /\ AssistantTurns(last_done.history_after) = 1

====
